---------------------------- MODULE Spec2Model ----------------------------
(***************************************************************************)
(* Pod Execution Agent (PEA) of HPK: the Go program embedded in            *)
(* src/README.md (package main).  The main goroutine acquires the pod,     *)
(* prepares the environment, runs the init containers one after another,   *)
(* spawns one supervisory goroutine per main container and finally blocks  *)
(* on a cancellation context that a signal-handler goroutine cancels.      *)
(***************************************************************************)
EXTENDS Integers, Sequences, FiniteSets, TLC

(* ---- bounds of the model ---- *)
MaxInit == 2
MaxMain == 2

(* ---- program / platform constants ---- *)
SignalChanCap == 1
ExitTimeout == 1
ExitPanic == 2
SIGTERM == 15
SIGCHLD == 17
PeaPid == 100

NotExited == -1
ExitStatuses == {0, 1}
(* SIGINT and SIGTERM share one case of the handler's switch and are not
   told apart: SIGTERM stands for both *)
TermSignals == {SIGTERM}

(* names removed by cleanEnvironment *)
envVars ==
    {"LD_LIBRARY_PATH", "SINGULARITY_COMMAND", "SINGULARITY_CONTAINER",
     "SINGULARITY_ENVIRONMENT", "SINGULARITY_NAME", "APPTAINER_APPNAME",
     "APPTAINER_COMMAND", "APPTAINER_CONTAINER", "APPTAINER_ENVIRONMENT",
     "APPTAINER_NAME", "APPTAINER_BIND", "SINGULARITY_BIND"}

(* the environments the PEA may be started with *)
EnvUniverse == {"KUBEDNS_IP", "APPTAINER_BIND", "LD_LIBRARY_PATH"}

InitContainers == {<<"init", i>> : i \in 1..MaxInit}
MainContainers == {<<"main", i>> : i \in 1..MaxMain}
AllContainers == InitContainers \cup MainContainers
InitC(i) == <<"init", i>>
MainC(i) == <<"main", i>>

VARIABLES
    pcMain,        \* position of the main goroutine
    loopIdx,       \* index of the container the main goroutine's range loop is at
    exitStatus,    \* exit status of the PEA process, NotExited while it runs
    pod,           \* the pod snapshot: numbers of init and main containers
    env,           \* names set (non-empty) in the process environment
    resolvConf,    \* /scratch/etc/resolv.conf exists
    hostsFile,     \* /scratch/etc/hosts exists
    ipFile,        \* <podDir>/.ip exists
    scratchEnv,    \* /scratch/<instanceName>.env exists, per container
    idFile,        \* content of <container>/.id: <<>> or <<"pid://", pid>>
    logsFile,      \* <container>/.logs exists
    exitCodeFile,  \* content of <container>/.exitCode: <<>> or <<n>>
    proc,          \* state of the container's child process
    status,        \* exit status the kernel holds for a terminated child
                   \* until it is collected by Wait4(-1), NotExited otherwise
    procState,     \* cmd.ProcessState after Wait: <<>> is nil
    cmdEnv,        \* cmd.Env of the container's command: <<>> or <<names>>
    pcT,           \* position of each main container's supervisory goroutine
    wg,            \* sync.WaitGroup counter
    cancelled,     \* ctx has been cancelled
    notified,      \* signal.Notify has been called
    pending,       \* signals raised for the process, not yet forwarded
    signalChan,    \* buffered channel of signals, capacity SignalChanCap
    pcH,           \* position of the signal-handler goroutine
    dnsIn,         \* what one call of prepareDNS reads: namespace, KUBEDNS_IP,
                   \* hostname, interface addresses
    dnsOut,        \* what that call left: the two files' contents, its error
    argsIn,        \* what the launchers build an invocation from: container
                   \* spec, .env presence, hpkEnv, DEBUG_MODE
    argsOut        \* the argument vector each launcher built: <<>> or <<args>>

vars == <<pcMain, loopIdx, exitStatus, pod, env, resolvConf, hostsFile, ipFile,
          scratchEnv, idFile, logsFile, exitCodeFile, proc, status, procState,
          cmdEnv, pcT, wg, cancelled, notified, pending, signalChan, pcH,
          dnsIn, dnsOut, argsIn, argsOut>>

peaVars == <<pcMain, loopIdx, exitStatus, pod, env, resolvConf, hostsFile, ipFile,
             scratchEnv, idFile, logsFile, exitCodeFile, proc, status, procState,
             cmdEnv, pcT, wg, cancelled, notified, pending, signalChan, pcH>>

fileVars == <<resolvConf, hostsFile, ipFile, scratchEnv, idFile, logsFile,
              exitCodeFile>>
procVars == <<proc, status, procState, cmdEnv>>
taskVars == <<pcT, wg>>
sigVars == <<cancelled, notified, pending, signalChan, pcH>>
dnsVars == <<dnsIn, dnsOut>>
argsVars == <<argsIn, argsOut>>
(* what the PEA as a whole leaves alone *)
fnVars == <<dnsVars, argsVars>>

Running == exitStatus = NotExited

(* pid of the child process of a container *)
ChildPid(c) == IF c[1] = "init" THEN PeaPid + c[2] ELSE PeaPid + MaxInit + c[2]

(* fmt.Sprintf("pid://%d", pid): the scheme and the number *)
pidFileContent(pid) == <<"pid://", pid>>

(* ProcessState.ExitCode(): -1 for a nil receiver *)
ExitCode(ps) == IF ps = <<>> THEN -1 ELSE ps[1]

(* fileExists(envFilePath): the pods considered have a .env script in the
   directory of every second container, and none in the others *)
fileExists(c) == c[2] % 2 = 0

(* exit status of a process killed by the default action of a signal *)
KilledBy(sig) == 128 + sig

InitPEA ==
    /\ pcMain = "start"
    /\ loopIdx = 0
    /\ exitStatus = NotExited
    /\ pod = [InitContainers |-> 0, Containers |-> 0]
    /\ env \in SUBSET EnvUniverse
    /\ resolvConf = FALSE
    /\ hostsFile = FALSE
    /\ ipFile = FALSE
    /\ scratchEnv = [c \in AllContainers |-> FALSE]
    /\ idFile = [c \in AllContainers |-> <<>>]
    /\ logsFile = [c \in AllContainers |-> FALSE]
    /\ exitCodeFile = [c \in AllContainers |-> <<>>]
    /\ proc = [c \in AllContainers |-> "none"]
    /\ status = [c \in AllContainers |-> NotExited]
    /\ procState = [c \in AllContainers |-> <<>>]
    /\ cmdEnv = [c \in AllContainers |-> <<>>]
    /\ pcT = [c \in MainContainers |-> "idle"]
    /\ wg = 0
    /\ cancelled = FALSE
    /\ notified = FALSE
    /\ pending = {}
    /\ signalChan = <<>>
    /\ pcH = "none"

(* the PEA as a whole; the contents of the DNS files are followed separately *)
Init ==
    /\ InitPEA
    /\ dnsIn = <<>>
    /\ dnsOut = <<>>
    /\ argsIn = <<>>
    /\ argsOut = <<>>

(* the process ends: every goroutine stops where it is *)
ProcessExit(code) ==
    /\ exitStatus' = code
    /\ pcMain' = "exited"

(* main returns: the process exits with status 0 *)
MainReturn == ProcessExit(0)

(* ---------------- main: flags, client, pod acquisition ---------------- *)

(* flag parsing, kubeconfig and clientset; log.Fatal exits with status 1 *)
MainSetup ==
    /\ Running /\ pcMain = "start"
    /\ \E fault \in {"none", "flags", "kubeconfig", "clientset"} :
         IF fault = "none"
         THEN pcMain' = "acquire" /\ UNCHANGED exitStatus
         ELSE ProcessExit(1)
    /\ UNCHANGED <<loopIdx, pod, env, fileVars, procVars, taskVars, sigVars>>
    /\ UNCHANGED fnVars

(* AcquirePod with a plausible slip: a failed fetch in the loop panics, as
   the fetch after the loop does *)
AcquirePod_FatalError ==
    /\ Running /\ pcMain = "acquire"
    /\ \E outcome \in {"timeout", "error", "ok"} :
         CASE outcome = "timeout" -> ProcessExit(ExitTimeout)
           [] outcome = "error"   -> ProcessExit(ExitPanic)
           [] outcome = "ok"      -> pcMain' = "refetch" /\ UNCHANGED exitStatus
    /\ UNCHANGED <<loopIdx, pod, env, fileVars, procVars, taskVars, sigVars>>
    /\ UNCHANGED fnVars

(* one pass of acquire_pod_loop: timeout, failed fetch (then sleep), or success *)
AcquirePod ==
    /\ Running /\ pcMain = "acquire"
    /\ \E outcome \in {"timeout", "error", "ok"} :
         CASE outcome = "timeout" -> ProcessExit(ExitTimeout)
           [] outcome = "error"   -> pcMain' = "sleep" /\ UNCHANGED exitStatus
           [] outcome = "ok"      -> pcMain' = "refetch" /\ UNCHANGED exitStatus
    /\ UNCHANGED <<loopIdx, pod, env, fileVars, procVars, taskVars, sigVars>>
    /\ UNCHANGED fnVars

(* time.Sleep(5s); continue *)
AcquireSleep ==
    /\ Running /\ pcMain = "sleep"
    /\ pcMain' = "acquire"
    /\ UNCHANGED <<loopIdx, exitStatus, pod, env, fileVars, procVars, taskVars, sigVars>>
    /\ UNCHANGED fnVars

(* RefetchPod with a plausible slip: a failed fetch after the loop goes back
   into the polling loop *)
RefetchPod_Retry ==
    /\ Running /\ pcMain = "refetch"
    /\ \/ /\ \E ni \in 0..MaxInit, nm \in 0..MaxMain :
               pod' = [InitContainers |-> ni, Containers |-> nm]
          /\ pcMain' = "prepareDNS"
          /\ UNCHANGED exitStatus
       \/ /\ pcMain' = "acquire"
          /\ UNCHANGED <<exitStatus, pod>>
    /\ UNCHANGED <<loopIdx, env, fileVars, procVars, taskVars, sigVars>>
    /\ UNCHANGED fnVars

(* the fetch after the loop: its pod is the one used; an error panics *)
RefetchPod ==
    /\ Running /\ pcMain = "refetch"
    /\ \/ /\ \E ni \in 0..MaxInit, nm \in 0..MaxMain :
               pod' = [InitContainers |-> ni, Containers |-> nm]
          /\ pcMain' = "prepareDNS"
          /\ UNCHANGED exitStatus
       \/ /\ ProcessExit(ExitPanic)
          /\ UNCHANGED pod
    /\ UNCHANGED <<loopIdx, env, fileVars, procVars, taskVars, sigVars>>
    /\ UNCHANGED fnVars

(* ---------------- environment preparation ---------------- *)

(* prepareDNS; an error makes prepareContainers fail and main return.
   A failed os.WriteFile is taken to leave no file behind. *)
prepareDNS ==
    /\ Running /\ pcMain = "prepareDNS"
    /\ \E fault \in {"none", "mkdir", "resolv", "hostname", "addrs", "hosts"} :
         LET kubeDNSIP == "KUBEDNS_IP" \in env
             resolvOK == fault # "mkdir" /\ kubeDNSIP /\ fault # "resolv"
             hostsOK  == resolvOK /\ fault = "none"
         IN  /\ resolvConf' = resolvOK
             /\ hostsFile' = hostsOK
             /\ IF hostsOK
                THEN pcMain' = "announceIP" /\ UNCHANGED exitStatus
                ELSE MainReturn
    /\ UNCHANGED <<loopIdx, pod, env, ipFile, scratchEnv, idFile, logsFile,
                   exitCodeFile, procVars, taskVars, sigVars>>
    /\ UNCHANGED fnVars

(* announceIP with a plausible slip: its error is only logged and the
   preparation goes on *)
announceIP_NoAbort ==
    /\ Running /\ pcMain = "announceIP"
    /\ \E fault \in {"none", "addrs", "write"} :
         IF fault = "none"
         THEN ipFile' = TRUE /\ pcMain' = "cleanEnvironment" /\ UNCHANGED exitStatus
         ELSE pcMain' = "cleanEnvironment" /\ UNCHANGED <<exitStatus, ipFile>>
    /\ UNCHANGED <<loopIdx, pod, env, resolvConf, hostsFile, scratchEnv, idFile,
                   logsFile, exitCodeFile, procVars, taskVars, sigVars>>
    /\ UNCHANGED fnVars

announceIP ==
    /\ Running /\ pcMain = "announceIP"
    /\ \E fault \in {"none", "addrs", "write"} :
         IF fault = "none"
         THEN ipFile' = TRUE /\ pcMain' = "cleanEnvironment" /\ UNCHANGED exitStatus
         ELSE MainReturn /\ UNCHANGED ipFile
    /\ UNCHANGED <<loopIdx, pod, env, resolvConf, hostsFile, scratchEnv, idFile,
                   logsFile, exitCodeFile, procVars, taskVars, sigVars>>
    /\ UNCHANGED fnVars

(* cleanEnvironment with a plausible slip: APPTAINER_BIND is missing from
   the list of names *)
cleanEnvironment_ShortList ==
    /\ Running /\ pcMain = "cleanEnvironment"
    /\ env' = env \ (envVars \ {"APPTAINER_BIND"})
    /\ loopIdx' = 1
    /\ pcMain' = IF pod.InitContainers > 0 THEN "initEnv" ELSE "handleContainers"
    /\ UNCHANGED <<exitStatus, pod, fileVars, procVars, taskVars, sigVars>>
    /\ UNCHANGED fnVars

(* cleanEnvironment, then main's choice between the two launchers *)
cleanEnvironment ==
    /\ Running /\ pcMain = "cleanEnvironment"
    /\ env' = env \ envVars
    /\ loopIdx' = 1
    /\ pcMain' = IF pod.InitContainers > 0 THEN "initEnv" ELSE "handleContainers"
    /\ UNCHANGED <<exitStatus, pod, fileVars, procVars, taskVars, sigVars>>
    /\ UNCHANGED fnVars

(* ---------------- handleInitContainers ---------------- *)

(* env-file handling and argument construction of init container loopIdx;
   fileExists panics on a Stat error other than "not exist" *)
InitEnvFile ==
    /\ Running /\ pcMain = "initEnv"
    /\ \E fault \in {"none", "stat", "exec", "write"} :
         LET c == InitC(loopIdx)
             hasEnvFile == fileExists(c)
         IN
         CASE fault = "stat" -> ProcessExit(ExitPanic) /\ UNCHANGED scratchEnv
           [] fault # "stat" /\ hasEnvFile /\ fault # "none" ->
                MainReturn /\ UNCHANGED scratchEnv
           [] OTHER ->
                /\ scratchEnv' = [scratchEnv EXCEPT ![c] = hasEnvFile]
                /\ pcMain' = "initId"
                /\ UNCHANGED exitStatus
    /\ UNCHANGED <<loopIdx, pod, env, resolvConf, hostsFile, ipFile, idFile, logsFile,
                   exitCodeFile, procVars, taskVars, sigVars>>
    /\ UNCHANGED fnVars

(* the PEA's own pid goes to .id before the process is created *)
InitWriteId ==
    /\ Running /\ pcMain = "initId"
    /\ \E fault \in BOOLEAN :
         IF fault
         THEN MainReturn /\ UNCHANGED idFile
         ELSE /\ idFile' = [idFile EXCEPT ![InitC(loopIdx)] = pidFileContent(PeaPid)]
              /\ pcMain' = "initLogs"
              /\ UNCHANGED exitStatus
    /\ UNCHANGED <<loopIdx, pod, env, resolvConf, hostsFile, ipFile, scratchEnv, logsFile,
                   exitCodeFile, procVars, taskVars, sigVars>>
    /\ UNCHANGED fnVars

(* InitCreateLogs with a plausible slip: a failed os.Create is only logged
   and the launcher goes on to run the container *)
InitCreateLogs_NoAbort ==
    /\ Running /\ pcMain = "initLogs"
    /\ cmdEnv' = [cmdEnv EXCEPT ![InitC(loopIdx)] = <<env>>]
    /\ \E fault \in BOOLEAN :
         IF fault
         THEN pcMain' = "initStart" /\ UNCHANGED <<exitStatus, logsFile>>
         ELSE /\ logsFile' = [logsFile EXCEPT ![InitC(loopIdx)] = TRUE]
              /\ pcMain' = "initStart"
              /\ UNCHANGED exitStatus
    /\ UNCHANGED <<loopIdx, pod, env, resolvConf, hostsFile, ipFile, scratchEnv, idFile,
                   exitCodeFile, proc, status, procState, taskVars, sigVars>>
    /\ UNCHANGED fnVars

(* exec.Command with cmd.Env = os.Environ(), then os.Create of .logs *)
InitCreateLogs ==
    /\ Running /\ pcMain = "initLogs"
    /\ cmdEnv' = [cmdEnv EXCEPT ![InitC(loopIdx)] = <<env>>]
    /\ \E fault \in BOOLEAN :
         IF fault
         THEN MainReturn /\ UNCHANGED logsFile
         ELSE /\ logsFile' = [logsFile EXCEPT ![InitC(loopIdx)] = TRUE]
              /\ pcMain' = "initStart"
              /\ UNCHANGED exitStatus
    /\ UNCHANGED <<loopIdx, pod, env, resolvConf, hostsFile, ipFile, scratchEnv, idFile,
                   exitCodeFile, proc, status, procState, taskVars, sigVars>>
    /\ UNCHANGED fnVars

(* InitStart with a plausible slip: once the child exists its pid replaces
   the PEA's own pid in .id *)
InitStart_RewriteId ==
    /\ Running /\ pcMain = "initStart"
    /\ \E fault \in BOOLEAN :
         IF fault
         THEN /\ proc' = [proc EXCEPT ![InitC(loopIdx)] = "failed"]
              /\ MainReturn
              /\ UNCHANGED idFile
         ELSE /\ proc' = [proc EXCEPT ![InitC(loopIdx)] = "running"]
              /\ idFile' = [idFile EXCEPT ![InitC(loopIdx)] = pidFileContent(ChildPid(InitC(loopIdx)))]
              /\ pcMain' = "initRun"
              /\ UNCHANGED exitStatus
    /\ UNCHANGED <<loopIdx, pod, env, resolvConf, hostsFile, ipFile, scratchEnv, logsFile,
                   exitCodeFile, status, procState, taskVars, sigVars, cmdEnv>>
    /\ UNCHANGED fnVars

(* cmd.Run, first half: Start; a start error is returned by Run *)
InitStart ==
    /\ Running /\ pcMain = "initStart"
    /\ \E fault \in BOOLEAN :
         IF fault
         THEN /\ proc' = [proc EXCEPT ![InitC(loopIdx)] = "failed"]
              /\ MainReturn
         ELSE /\ proc' = [proc EXCEPT ![InitC(loopIdx)] = "running"]
              /\ pcMain' = "initRun"
              /\ UNCHANGED exitStatus
    /\ UNCHANGED <<loopIdx, pod, env, fileVars, status, procState, taskVars,
                   sigVars, cmdEnv>>
    /\ UNCHANGED fnVars

(* InitRunReturn with a plausible slip: the error of cmd.Run is only logged
   instead of returned *)
InitRunReturn_NoAbort ==
    /\ Running /\ pcMain = "initRun"
    /\ LET c == InitC(loopIdx) IN
         /\ proc[c] = "zombie"
         /\ proc' = [proc EXCEPT ![c] = "waited"]
         /\ procState' = [procState EXCEPT ![c] = <<status[c]>>]
         /\ pcMain' = "initExitCode" /\ UNCHANGED exitStatus
    /\ UNCHANGED <<loopIdx, pod, env, fileVars, status, taskVars, sigVars, cmdEnv>>
    /\ UNCHANGED fnVars

(* cmd.Run, second half: Wait returns once the child has terminated;
   a non-zero status is an error and aborts the launcher *)
InitRunReturn ==
    /\ Running /\ pcMain = "initRun"
    /\ LET c == InitC(loopIdx) IN
         /\ proc[c] = "zombie"
         /\ proc' = [proc EXCEPT ![c] = "waited"]
         /\ procState' = [procState EXCEPT ![c] = <<status[c]>>]
         /\ IF status[c] # 0
            THEN MainReturn
            ELSE pcMain' = "initExitCode" /\ UNCHANGED exitStatus
    /\ UNCHANGED <<loopIdx, pod, env, fileVars, status, taskVars, sigVars, cmdEnv>>
    /\ UNCHANGED fnVars

(* InitWriteExitCode with a plausible slip: a failed write of .exitCode is
   only logged and the loop goes on *)
InitWriteExitCode_Continue ==
    /\ Running /\ pcMain = "initExitCode"
    /\ \E fault \in BOOLEAN :
         LET c == InitC(loopIdx) IN
         /\ IF fault
            THEN UNCHANGED exitCodeFile
            ELSE exitCodeFile' = [exitCodeFile EXCEPT ![c] = <<ExitCode(procState[c])>>]
         /\ UNCHANGED exitStatus
         /\ IF loopIdx < pod.InitContainers
            THEN loopIdx' = loopIdx + 1 /\ pcMain' = "initEnv"
            ELSE loopIdx' = 1 /\ pcMain' = "handleContainers"
    /\ UNCHANGED <<pod, env, resolvConf, hostsFile, ipFile, scratchEnv, idFile, logsFile,
                   procVars, taskVars, sigVars>>
    /\ UNCHANGED fnVars

InitWriteExitCode ==
    /\ Running /\ pcMain = "initExitCode"
    /\ \E fault \in BOOLEAN :
         LET c == InitC(loopIdx) IN
         IF fault
         THEN MainReturn /\ UNCHANGED <<exitCodeFile, loopIdx>>
         ELSE /\ exitCodeFile' = [exitCodeFile EXCEPT ![c] = <<ExitCode(procState[c])>>]
              /\ UNCHANGED exitStatus
              /\ IF loopIdx < pod.InitContainers
                 THEN loopIdx' = loopIdx + 1 /\ pcMain' = "initEnv"
                 ELSE loopIdx' = 1 /\ pcMain' = "handleContainers"
    /\ UNCHANGED <<pod, env, resolvConf, hostsFile, ipFile, scratchEnv, idFile, logsFile,
                   procVars, taskVars, sigVars>>
    /\ UNCHANGED fnVars

(* ---------------- handleContainers ---------------- *)

(* one iteration of the range loop: env-file handling, argument
   construction, wg.Add(1) and the go statement *)
LaunchContainer ==
    /\ Running /\ pcMain = "handleContainers" /\ loopIdx <= pod.Containers
    /\ \E fault \in {"none", "stat", "exec", "write"} :
         LET c == MainC(loopIdx)
             hasEnvFile == fileExists(c)
         IN
         CASE fault = "stat" ->
                ProcessExit(ExitPanic) /\ UNCHANGED <<scratchEnv, wg, pcT, loopIdx>>
           [] fault # "stat" /\ hasEnvFile /\ fault # "none" ->
                MainReturn /\ UNCHANGED <<scratchEnv, wg, pcT, loopIdx>>
           [] OTHER ->
                /\ scratchEnv' = [scratchEnv EXCEPT ![c] = hasEnvFile]
                /\ wg' = wg + 1
                /\ pcT' = [pcT EXCEPT ![c] = "logs"]
                /\ loopIdx' = loopIdx + 1
                /\ UNCHANGED <<pcMain, exitStatus>>
    /\ UNCHANGED <<pod, env, resolvConf, hostsFile, ipFile, idFile, logsFile,
                   exitCodeFile, procVars, sigVars>>
    /\ UNCHANGED fnVars

(* TaskCreateLogs with a plausible slip: the env file of the container is
   produced by its goroutine instead of by the launcher *)
TaskCreateLogs_EnvInTask(c) ==
    /\ Running /\ pcT[c] = "logs"
    /\ cmdEnv' = [cmdEnv EXCEPT ![c] = <<env>>]
    /\ scratchEnv' = [scratchEnv EXCEPT ![c] = TRUE]
    /\ \E fault \in BOOLEAN :
         IF fault
         THEN /\ pcT' = [pcT EXCEPT ![c] = "done"]
              /\ wg' = wg - 1
              /\ UNCHANGED logsFile
         ELSE /\ logsFile' = [logsFile EXCEPT ![c] = TRUE]
              /\ pcT' = [pcT EXCEPT ![c] = "start"]
              /\ UNCHANGED wg
    /\ UNCHANGED <<pcMain, loopIdx, exitStatus, pod, env, resolvConf, hostsFile, ipFile,
                   idFile, exitCodeFile, proc, status, procState, sigVars>>
    /\ UNCHANGED fnVars

(* supervisory goroutine: os.Create of .logs *)
TaskCreateLogs(c) ==
    /\ Running /\ pcT[c] = "logs"
    /\ cmdEnv' = [cmdEnv EXCEPT ![c] = <<env>>]
    /\ \E fault \in BOOLEAN :
         IF fault
         THEN /\ pcT' = [pcT EXCEPT ![c] = "done"]
              /\ wg' = wg - 1
              /\ UNCHANGED logsFile
         ELSE /\ logsFile' = [logsFile EXCEPT ![c] = TRUE]
              /\ pcT' = [pcT EXCEPT ![c] = "start"]
              /\ UNCHANGED wg
    /\ UNCHANGED <<pcMain, loopIdx, exitStatus, pod, env, resolvConf, hostsFile, ipFile,
                   scratchEnv, idFile, exitCodeFile, proc, status, procState, sigVars>>
    /\ UNCHANGED fnVars

(* TaskStart with a plausible slip: the containers are started one after
   the other, each once the ones before it in the pod have terminated *)
TaskStart_InTurn(c) ==
    /\ Running /\ pcT[c] = "start"
    /\ \A i \in 1..(c[2] - 1) : proc[MainC(i)] \in {"failed", "waited", "reaped"}
    /\ \E fault \in BOOLEAN :
         IF fault
         THEN /\ proc' = [proc EXCEPT ![c] = "failed"]
              /\ pcT' = [pcT EXCEPT ![c] = "done"]
              /\ wg' = wg - 1
              /\ ProcessExit(ExitPanic)
         ELSE /\ proc' = [proc EXCEPT ![c] = "running"]
              /\ pcT' = [pcT EXCEPT ![c] = "id"]
              /\ UNCHANGED <<wg, pcMain, exitStatus>>
    /\ UNCHANGED <<loopIdx, pod, env, fileVars, status, procState, sigVars, cmdEnv>>
    /\ UNCHANGED fnVars

(* cmd.Start; its error is only logged, and cmd.Process is nil then: the
   read of cmd.Process.Pid panics, the deferred wg.Done runs and the
   unrecovered panic ends the process *)
TaskStart(c) ==
    /\ Running /\ pcT[c] = "start"
    /\ \E fault \in BOOLEAN :
         IF fault
         THEN /\ proc' = [proc EXCEPT ![c] = "failed"]
              /\ pcT' = [pcT EXCEPT ![c] = "done"]
              /\ wg' = wg - 1
              /\ ProcessExit(ExitPanic)
         ELSE /\ proc' = [proc EXCEPT ![c] = "running"]
              /\ pcT' = [pcT EXCEPT ![c] = "id"]
              /\ UNCHANGED <<wg, pcMain, exitStatus>>
    /\ UNCHANGED <<loopIdx, pod, env, fileVars, status, procState, sigVars, cmdEnv>>
    /\ UNCHANGED fnVars

(* TaskWriteId with a plausible slip: the goroutines share one cmd, that of
   the first container, and write its pid *)
TaskWriteId_SharedCmd(c) ==
    /\ Running /\ pcT[c] = "id"
    /\ \E fault \in BOOLEAN :
         IF fault
         THEN /\ pcT' = [pcT EXCEPT ![c] = "done"]
              /\ wg' = wg - 1
              /\ UNCHANGED idFile
         ELSE /\ idFile' = [idFile EXCEPT ![c] = pidFileContent(ChildPid(MainC(1)))]
              /\ pcT' = [pcT EXCEPT ![c] = "wait"]
              /\ UNCHANGED wg
    /\ UNCHANGED <<pcMain, loopIdx, exitStatus, pod, env, resolvConf, hostsFile, ipFile,
                   scratchEnv, logsFile, exitCodeFile, procVars, sigVars>>
    /\ UNCHANGED fnVars

(* the child's pid goes to .id *)
TaskWriteId(c) ==
    /\ Running /\ pcT[c] = "id"
    /\ \E fault \in BOOLEAN :
         IF fault
         THEN /\ pcT' = [pcT EXCEPT ![c] = "done"]
              /\ wg' = wg - 1
              /\ UNCHANGED idFile
         ELSE /\ idFile' = [idFile EXCEPT ![c] = pidFileContent(ChildPid(c))]
              /\ pcT' = [pcT EXCEPT ![c] = "wait"]
              /\ UNCHANGED wg
    /\ UNCHANGED <<pcMain, loopIdx, exitStatus, pod, env, resolvConf, hostsFile, ipFile,
                   scratchEnv, logsFile, exitCodeFile, procVars, sigVars>>
    /\ UNCHANGED fnVars

(* TaskWait with a plausible slip: the task does not block until the child
   has terminated *)
TaskWait_NoBlock(c) ==
    /\ Running /\ pcT[c] = "wait"
    /\ \/ /\ proc[c] = "zombie"
          /\ proc' = [proc EXCEPT ![c] = "waited"]
          /\ procState' = [procState EXCEPT ![c] = <<status[c]>>]
       \/ /\ proc[c] \in {"reaped", "running"}
          /\ UNCHANGED <<proc, procState>>
    /\ pcT' = [pcT EXCEPT ![c] = "exitCode"]
    /\ UNCHANGED <<pcMain, loopIdx, exitStatus, pod, env, fileVars, status, wg,
                   sigVars, cmdEnv>>
    /\ UNCHANGED fnVars

(* cmd.Wait returns: it collected the terminated child, or the child was
   already collected by the handler's Wait4(-1) and Wait fails, leaving
   cmd.ProcessState nil; the error is only logged *)
TaskWait(c) ==
    /\ Running /\ pcT[c] = "wait"
    /\ \/ /\ proc[c] = "zombie"
          /\ proc' = [proc EXCEPT ![c] = "waited"]
          /\ procState' = [procState EXCEPT ![c] = <<status[c]>>]
       \/ /\ proc[c] = "reaped"
          /\ UNCHANGED <<proc, procState>>
    /\ pcT' = [pcT EXCEPT ![c] = "exitCode"]
    /\ UNCHANGED <<pcMain, loopIdx, exitStatus, pod, env, fileVars, status, wg,
                   sigVars, cmdEnv>>
    /\ UNCHANGED fnVars

(* TaskWriteExitCode with a plausible slip: wg.Done is called at the end of
   the goroutine instead of deferred, and a failed write returns before it *)
TaskWriteExitCode_NoDefer(c) ==
    /\ Running /\ pcT[c] = "exitCode"
    /\ \E fault \in BOOLEAN :
         IF fault
         THEN UNCHANGED <<exitCodeFile, wg>>
         ELSE /\ exitCodeFile' = [exitCodeFile EXCEPT ![c] = <<ExitCode(procState[c])>>]
              /\ wg' = wg - 1
    /\ pcT' = [pcT EXCEPT ![c] = "done"]
    /\ UNCHANGED <<pcMain, loopIdx, exitStatus, pod, env, resolvConf, hostsFile, ipFile,
                   scratchEnv, idFile, logsFile, procVars, sigVars>>
    /\ UNCHANGED fnVars

(* write of .exitCode, then the deferred wg.Done *)
TaskWriteExitCode(c) ==
    /\ Running /\ pcT[c] = "exitCode"
    /\ \E fault \in BOOLEAN :
         IF fault
         THEN UNCHANGED exitCodeFile
         ELSE exitCodeFile' = [exitCodeFile EXCEPT ![c] = <<ExitCode(procState[c])>>]
    /\ pcT' = [pcT EXCEPT ![c] = "done"]
    /\ wg' = wg - 1
    /\ UNCHANGED <<pcMain, loopIdx, exitStatus, pod, env, resolvConf, hostsFile, ipFile,
                   scratchEnv, idFile, logsFile, procVars, sigVars>>
    /\ UNCHANGED fnVars

(* ---------------- main: context, signal handler ---------------- *)

(* handleContainers returned nil: context, channel, signal.Notify, go handler *)
MainInstall ==
    /\ Running /\ pcMain = "handleContainers" /\ loopIdx > pod.Containers
    /\ notified' = TRUE
    /\ pcH' = "select"
    /\ pcMain' = "ctxDone"
    /\ UNCHANGED <<loopIdx, exitStatus, pod, env, fileVars, procVars, taskVars,
                   cancelled, pending, signalChan>>
    /\ UNCHANGED fnVars

(* <-ctx.Done() in main, then main returns *)
MainCtxDone ==
    /\ Running /\ pcMain = "ctxDone" /\ cancelled
    /\ MainReturn
    /\ UNCHANGED <<loopIdx, pod, env, fileVars, procVars, taskVars, sigVars>>
    /\ UNCHANGED fnVars

(* HandlerRecv with a plausible slip: the commands are bound to the context
   (exec.CommandContext), so that cancel kills the running children *)
HandlerRecv_Kill ==
    /\ Running /\ pcH = "select" /\ signalChan # <<>>
    /\ signalChan' = Tail(signalChan)
    /\ IF Head(signalChan) \in TermSignals
       THEN /\ cancelled' = TRUE /\ pcH' = "termWait"
            /\ proc' = [c \in AllContainers |->
                          IF proc[c] = "running" THEN "zombie" ELSE proc[c]]
            /\ status' = [c \in AllContainers |->
                            IF proc[c] = "running" THEN 1 ELSE status[c]]
       ELSE pcH' = "reap" /\ UNCHANGED <<cancelled, proc, status>>
    /\ UNCHANGED <<pcMain, loopIdx, exitStatus, pod, env, fileVars, procState, cmdEnv,
                   taskVars, notified, pending>>
    /\ UNCHANGED fnVars

(* handler: case signo := <-signalChan; INT/TERM cancel at once *)
HandlerRecv ==
    /\ Running /\ pcH = "select" /\ signalChan # <<>>
    /\ signalChan' = Tail(signalChan)
    /\ IF Head(signalChan) \in TermSignals
       THEN cancelled' = TRUE /\ pcH' = "termWait"
       ELSE pcH' = "reap" /\ UNCHANGED cancelled
    /\ UNCHANGED <<pcMain, loopIdx, exitStatus, pod, env, fileVars, procVars, taskVars,
                   notified, pending>>
    /\ UNCHANGED fnVars

(* handler: one Wait4(-1, nil, WNOHANG, nil): it collects any terminated
   child and drops its status (wstatus is nil); with nothing to collect,
   break and cancel *)
HandlerWait4 ==
    /\ Running /\ pcH = "reap"
    /\ IF \E c \in AllContainers : proc[c] = "zombie"
       THEN /\ \E c \in AllContainers :
                 /\ proc[c] = "zombie"
                 /\ proc' = [proc EXCEPT ![c] = "reaped"]
                 /\ status' = [status EXCEPT ![c] = NotExited]
            /\ UNCHANGED <<cancelled, pcH>>
       ELSE /\ cancelled' = TRUE
            /\ pcH' = "chldWait"
            /\ UNCHANGED <<proc, status>>
    /\ UNCHANGED <<pcMain, loopIdx, exitStatus, pod, env, fileVars, procState,
                   taskVars, notified, pending, signalChan, cmdEnv>>
    /\ UNCHANGED fnVars

(* handler: wg.Wait() after cancel returns, back to the select *)
HandlerWgWait ==
    /\ Running /\ pcH \in {"termWait", "chldWait"} /\ wg = 0
    /\ pcH' = "select"
    /\ UNCHANGED <<pcMain, loopIdx, exitStatus, pod, env, fileVars, procVars, taskVars,
                   cancelled, notified, pending, signalChan>>
    /\ UNCHANGED fnVars

(* handler: case <-ctx.Done() *)
HandlerCtxDone ==
    /\ Running /\ pcH = "select" /\ cancelled
    /\ pcH' = "ctxWait"
    /\ UNCHANGED <<pcMain, loopIdx, exitStatus, pod, env, fileVars, procVars, taskVars,
                   cancelled, notified, pending, signalChan>>
    /\ UNCHANGED fnVars

(* handler: wg.Wait() returns, the goroutine returns *)
HandlerReturn ==
    /\ Running /\ pcH = "ctxWait" /\ wg = 0
    /\ pcH' = "done"
    /\ UNCHANGED <<pcMain, loopIdx, exitStatus, pod, env, fileVars, procVars, taskVars,
                   cancelled, notified, pending, signalChan>>
    /\ UNCHANGED fnVars

(* ---------------- surroundings: children and signals ---------------- *)

(* a container process terminates with some status; SIGCHLD is raised and
   is discarded unless signal.Notify has enabled it *)
ChildExit(c) ==
    /\ Running /\ proc[c] = "running"
    /\ \E s \in ExitStatuses : status' = [status EXCEPT ![c] = s]
    /\ proc' = [proc EXCEPT ![c] = "zombie"]
    /\ pending' = IF notified THEN pending \cup {SIGCHLD} ELSE pending
    /\ UNCHANGED <<pcMain, loopIdx, exitStatus, pod, env, fileVars, procState, taskVars,
                   cancelled, notified, signalChan, pcH, cmdEnv>>
    /\ UNCHANGED fnVars

(* the job sends INT or TERM; before signal.Notify the default action
   terminates the process *)
SendSignal(sig) ==
    /\ Running
    /\ IF notified
       THEN pending' = pending \cup {sig} /\ UNCHANGED <<pcMain, exitStatus>>
       ELSE ProcessExit(KilledBy(sig)) /\ UNCHANGED pending
    /\ UNCHANGED <<loopIdx, pod, env, fileVars, procVars, taskVars,
                   cancelled, notified, signalChan, pcH>>
    /\ UNCHANGED fnVars

(* the runtime forwards a pending signal with a non-blocking send *)
ForwardSignal(sig) ==
    /\ Running /\ sig \in pending
    /\ pending' = pending \ {sig}
    /\ signalChan' = IF Len(signalChan) < SignalChanCap
                     THEN Append(signalChan, sig)
                     ELSE signalChan
    /\ UNCHANGED <<pcMain, loopIdx, exitStatus, pod, env, fileVars, procVars, taskVars,
                   cancelled, notified, pcH>>

    /\ UNCHANGED fnVars
Next ==
    \/ MainSetup
    \/ AcquirePod
    \/ AcquireSleep
    \/ RefetchPod
    \/ prepareDNS
    \/ announceIP
    \/ cleanEnvironment
    \/ InitEnvFile
    \/ InitWriteId
    \/ InitCreateLogs
    \/ InitStart
    \/ InitRunReturn
    \/ InitWriteExitCode
    \/ LaunchContainer
    \/ \E c \in MainContainers : TaskCreateLogs(c)
    \/ \E c \in MainContainers : TaskStart(c)
    \/ \E c \in MainContainers : TaskWriteId(c)
    \/ \E c \in MainContainers : TaskWait(c)
    \/ \E c \in MainContainers : TaskWriteExitCode(c)
    \/ MainInstall
    \/ MainCtxDone
    \/ HandlerRecv
    \/ HandlerWait4
    \/ HandlerWgWait
    \/ HandlerCtxDone
    \/ HandlerReturn
    \/ \E c \in AllContainers : ChildExit(c)
    \/ \E sig \in TermSignals : SendSignal(sig)
    \/ \E sig \in TermSignals \cup {SIGCHLD} : ForwardSignal(sig)

Spec == Init /\ [][Next]_vars

(* ---- scheduling: every goroutine that can step eventually steps, a
   raised signal is eventually forwarded, and a running child eventually
   terminates; nobody is bound to send INT or TERM ---- *)
MainStep ==
    \/ MainSetup \/ AcquirePod \/ AcquireSleep \/ RefetchPod
    \/ prepareDNS \/ announceIP \/ cleanEnvironment
    \/ InitEnvFile \/ InitWriteId \/ InitCreateLogs \/ InitStart
    \/ InitRunReturn \/ InitWriteExitCode
    \/ LaunchContainer \/ MainInstall \/ MainCtxDone

TaskStep(c) ==
    \/ TaskCreateLogs(c) \/ TaskStart(c) \/ TaskWriteId(c)
    \/ TaskWait(c) \/ TaskWriteExitCode(c)

HandlerStep ==
    \/ HandlerRecv \/ HandlerWait4 \/ HandlerWgWait
    \/ HandlerCtxDone \/ HandlerReturn

Fairness ==
    /\ WF_vars(MainStep)
    /\ WF_vars(HandlerStep)
    /\ \A c \in MainContainers : WF_vars(TaskStep(c))
    /\ \A c \in AllContainers : WF_vars(ChildExit(c))
    /\ \A sig \in TermSignals \cup {SIGCHLD} : WF_vars(ForwardSignal(sig))

SpecLive == Spec /\ Fairness

TypeOK ==
    /\ exitStatus \in {NotExited, 0, ExitTimeout, ExitPanic} \cup {KilledBy(s) : s \in TermSignals}
    /\ wg \in 0..MaxMain
    /\ Len(signalChan) <= SignalChanCap
    /\ \A c \in AllContainers : proc[c] \in {"none", "running", "failed", "zombie", "waited", "reaped"}

(* ---------------- prepareDNS on file contents ---------------- *)

MaxAddrs == 2

(* a text is a sequence of words and of these white-space characters *)
SP == " "
TAB == "\t"
NL == "\n"

Namespaces == {"default", "kube-system", "hpk"}
(* os.Getenv("KUBEDNS_IP"): "" when unset *)
KubeDNSIPs == {"", "10.96.0.10", "10.43.0.10"}
Hostnames == {"node1"}
(* what net.InterfaceAddrs may list, with the answers the filter asks for *)
InterfaceAddrs ==
    {[IP |-> "127.0.0.1", IsLoopback |-> TRUE,  To4 |-> TRUE],
     [IP |-> "10.0.0.5",  IsLoopback |-> FALSE, To4 |-> TRUE],
     [IP |-> "fe80::1",   IsLoopback |-> FALSE, To4 |-> FALSE]}
AddrLists == UNION {[1..n -> InterfaceAddrs] : n \in 0..MaxAddrs}

(* strings.Join on texts *)
RECURSIVE Join(_, _)
Join(elems, sep) ==
    IF Len(elems) = 0 THEN <<>>
    ELSE IF Len(elems) = 1 THEN <<elems[1]>>
    ELSE <<elems[1], sep>> \o Join(Tail(elems), sep)

(* the lines of a text: the pieces between its newlines *)
RECURSIVE Lines(_)
Lines(text) ==
    IF \E i \in 1..Len(text) : text[i] = NL
    THEN LET i == CHOOSE k \in 1..Len(text) :
                      text[k] = NL /\ \A j \in 1..(k - 1) : text[j] # NL
         IN  <<SubSeq(text, 1, i - 1)>> \o Lines(SubSeq(text, i + 1, Len(text)))
    ELSE <<text>>

(* the back-quoted format string of resolv.conf: its second and third line
   are indented by a tab in the source, and a raw string keeps it *)
resolvConfContent(namespace, kubeDNSIP) ==
    <<"search", SP, namespace \o ".svc.cluster.local", SP, "svc.cluster.local", SP,
      "cluster.local", NL,
      TAB, "nameserver", SP, kubeDNSIP, NL,
      TAB, "options", SP, "ndots:5">>

(* non-loopback IPv4 addresses, in the order listed *)
ipAddresses(addrs) ==
    LET kept == SelectSeq(addrs, LAMBDA a : ~a.IsLoopback /\ a.To4)
    IN  [i \in 1..Len(kept) |-> kept[i].IP]

hostsContent(addrs, hostname) ==
    LET ipString == Join(ipAddresses(addrs), SP) \o <<SP, hostname>>
    IN  <<"127.0.0.1", SP, "localhost", NL>> \o ipString \o <<SP, NL>>

InitDNS ==
    /\ dnsIn \in [Namespace : Namespaces, KUBEDNS_IP : KubeDNSIPs,
                  hostname : Hostnames, addrs : AddrLists]
    /\ dnsOut = [pc |-> "resolv.conf", resolvConf |-> <<>>, hosts |-> <<>>]
    /\ InitPEA
    /\ env = {n \in {"KUBEDNS_IP"} : dnsIn.KUBEDNS_IP # ""}
    /\ argsIn = <<>>
    /\ argsOut = <<>>

(* MkdirAll, the KUBEDNS_IP check and the write of resolv.conf *)
DNSWriteResolvConf ==
    /\ dnsOut.pc = "resolv.conf"
    /\ \E fault \in {"none", "mkdir", "write"} :
         IF fault = "none" /\ dnsIn.KUBEDNS_IP # ""
         THEN dnsOut' = [dnsOut EXCEPT
                           !.pc = "hosts",
                           !.resolvConf = resolvConfContent(dnsIn.Namespace,
                                                            dnsIn.KUBEDNS_IP)]
         ELSE dnsOut' = [dnsOut EXCEPT !.pc = "error"]
    /\ UNCHANGED <<peaVars, dnsIn, argsVars>>

(* hostname, interface addresses and the write of hosts *)
DNSWriteHosts ==
    /\ dnsOut.pc = "hosts"
    /\ \E fault \in {"none", "hostname", "addrs", "write"} :
         IF fault = "none"
         THEN dnsOut' = [dnsOut EXCEPT
                           !.pc = "ok",
                           !.hosts = hostsContent(dnsIn.addrs, dnsIn.hostname)]
         ELSE dnsOut' = [dnsOut EXCEPT !.pc = "error"]
    /\ UNCHANGED <<peaVars, dnsIn, argsVars>>

NextDNS ==
    \/ DNSWriteResolvConf
    \/ DNSWriteHosts

SpecDNS == InitDNS /\ [][NextDNS]_vars

(* ---------------- the apptainer argument vector ---------------- *)

MaxMounts == 2

(* container.Command: <<>> is nil, <<list>> a list that is present, with
   zero or more elements *)
Commands == {<<>>, << <<>> >>, << <<"sh">> >>}
ContainerArgs == {<<>>, <<"-c">>}
VolumeMounts ==
    {[Name |-> "data", MountPath |-> "/data", ReadOnly |-> FALSE],
     [Name |-> "conf", MountPath |-> "/etc/conf", ReadOnly |-> TRUE]}
MountLists == UNION {[1..n -> VolumeMounts] : n \in 0..MaxMounts}
(* what DetermineEffectiveRunAsUser gives *)
Uids == {0, 1000}
Gids == {0, 2000}
Images == {"busybox"}

ContainerSpecs ==
    [Command : Commands, Args : ContainerArgs, VolumeMounts : MountLists,
     uid : Uids, gid : Gids, Image : Images]

(* an argument is a text: a sequence of pieces, so that what was appended
   to it can be told from what it was *)
executionMode(container) ==
    IF container.Command = <<>> THEN "run" ELSE "exec"

(* hostPath + ":" + mount.MountPath + ":" + accessMode, one per mount *)
binds(container) ==
    [i \in 1..Len(container.VolumeMounts) |->
        LET mount == container.VolumeMounts[i]
            hostPath == "<VolumeDir>/" \o mount.Name
            accessMode == IF mount.ReadOnly THEN "ro" ELSE "rw"
        IN  hostPath \o ":" \o mount.MountPath \o ":" \o accessMode]

apptainerVerbosity(isDebug) == IF isDebug THEN "--debug" ELSE "--quiet"

(* the slice literal the vector starts from *)
firstArgs(container, isDebug) ==
    << <<apptainerVerbosity(isDebug)>>, <<executionMode(container)>>,
       <<"--cleanenv">>, <<"--writable-tmpfs">>, <<"--no-mount">>, <<"home">>,
       <<"--unsquash">> >>

(* append(apptainerArgs, "--bind", "<resolv.conf bind>,<hosts bind>") *)
appendDNSBind(args) ==
    args \o << <<"--bind">>,
               <<"/scratch/etc/resolv.conf:/etc/resolv.conf", ",",
                 "/scratch/etc/hosts:/etc/hosts">> >>

(* bindArgs := &apptainerArgs[len(apptainerArgs)-1];
   *bindArgs += "," + strings.Join(binds, ",") *)
extendLastArg(args, b) ==
    [args EXCEPT ![Len(args)] = @ \o <<",">> \o Join(b, ",")]

(* the uid appears twice in the format's arguments *)
uidSecurity(uid) ==
    IF uid # 0
    THEN << <<"--security">>,
            <<"uid:", ToString(uid), ",", "gid:", ToString(uid)>>,
            <<"--userns">> >>
    ELSE <<>>

gidSecurity(gid) ==
    IF gid # 0
    THEN << <<"--security">>, <<"gid:", ToString(gid)>>, <<"--userns">> >>
    ELSE <<>>

envFileArgs(hasEnvFile) ==
    IF hasEnvFile
    THEN << <<"--env-file">>, <<"/scratch", "/", "<instanceName>", ".env">> >>
    ELSE <<>>

(* hpk.ImageDir() + image.ParseImageName(container.Image), both defined
   outside this program: kept as two pieces *)
imageArg(container) == << <<"<ImageDir>", container.Image>> >>

(* a list of strings as arguments; nil gives none *)
stringArgs(list) == [i \in 1..Len(list) |-> <<list[i]>>]

commandArgs(container) ==
    IF container.Command = <<>> THEN <<>> ELSE stringArgs(container.Command[1])

(* apptainerArgs of handleInitContainers: the binds are appended to the
   last argument whether or not --bind was added *)
initApptainerArgs(container, hasEnvFile, hpkEnv, isDebug) ==
    LET a1 == firstArgs(container, isDebug)
        a2 == IF hpkEnv THEN appendDNSBind(a1) ELSE a1
        a3 == IF Len(binds(container)) > 0
              THEN extendLastArg(a2, binds(container))
              ELSE a2
    IN  a3 \o uidSecurity(container.uid) \o gidSecurity(container.gid)
           \o envFileArgs(hasEnvFile) \o imageArg(container)
           \o commandArgs(container) \o stringArgs(container.Args)

(* apptainerArgs of handleContainers: the binds are appended only inside
   the hpkEnv branch *)
mainApptainerArgs(container, hasEnvFile, hpkEnv, isDebug) ==
    LET a1 == firstArgs(container, isDebug)
        a2 == IF hpkEnv
              THEN IF Len(binds(container)) > 0
                   THEN extendLastArg(appendDNSBind(a1), binds(container))
                   ELSE appendDNSBind(a1)
              ELSE a1
    IN  a2 \o uidSecurity(container.uid) \o gidSecurity(container.gid)
           \o envFileArgs(hasEnvFile) \o imageArg(container)
           \o commandArgs(container) \o stringArgs(container.Args)

InitArgs ==
    /\ argsIn \in [container : ContainerSpecs, hasEnvFile : BOOLEAN,
                   hpkEnv : BOOLEAN, isDebug : BOOLEAN]
    /\ argsOut = [init |-> <<>>, main |-> <<>>]
    /\ InitPEA
    /\ env = {}
    /\ dnsIn = <<>>
    /\ dnsOut = <<>>

(* handleInitContainers builds the vector for the container *)
InitBuildArgs ==
    /\ argsOut.init = <<>>
    /\ argsOut' = [argsOut EXCEPT
                     !.init = <<initApptainerArgs(argsIn.container, argsIn.hasEnvFile,
                                                  argsIn.hpkEnv, argsIn.isDebug)>>]
    /\ UNCHANGED <<peaVars, dnsVars, argsIn>>

(* handleContainers builds the vector for the same container *)
MainBuildArgs ==
    /\ argsOut.main = <<>>
    /\ argsOut' = [argsOut EXCEPT
                     !.main = <<mainApptainerArgs(argsIn.container, argsIn.hasEnvFile,
                                                  argsIn.hpkEnv, argsIn.isDebug)>>]
    /\ UNCHANGED <<peaVars, dnsVars, argsIn>>

NextArgs ==
    \/ InitBuildArgs
    \/ MainBuildArgs

SpecArgs == InitArgs /\ [][NextArgs]_vars

(* ---------------- properties ---------------- *)

Exited == exitStatus # NotExited

(* the container's child process was created *)
Started(c) == proc[c] \in {"running", "zombie", "waited", "reaped"}

(* the container's child process has terminated with a non-zero status *)
ExitedNonZero(c) ==
    \/ proc[c] = "zombie" /\ status[c] # 0
    \/ proc[c] = "waited" /\ procState[c] # <<>> /\ procState[c][1] # 0

(* nothing of the container exists: no file, no process *)
NoArtifacts(c) ==
    /\ idFile[c] = <<>>
    /\ ~logsFile[c]
    /\ exitCodeFile[c] = <<>>
    /\ ~scratchEnv[c]
    /\ proc[c] = "none"

(* C1: when the PEA has exited while the handler was draining after an
   INT/TERM (cancel, then wg.Wait), the supervisory task of every main
   container that has an .id file has finished and its .exitCode exists *)
C1_SignalDrain ==
    (Exited /\ pcH = "termWait") =>
        \A i \in 1..pod.Containers :
            idFile[MainC(i)] # <<>> =>
                pcT[MainC(i)] = "done" /\ exitCodeFile[MainC(i)] # <<>>

(* C2: once main has returned (after a signal, after a child's exit, or
   after an error of a launcher), every container whose child process was
   started has its .id, .logs and .exitCode files *)
C2_LayoutAtExit ==
    exitStatus = 0 =>
        \A c \in AllContainers :
            Started(c) => idFile[c] # <<>> /\ logsFile[c] /\ exitCodeFile[c] # <<>>

(* C3: the value in a main container's .exitCode is the status its child
   terminated with, a number in 0..255 *)
C3_ExitCodeValue ==
    \A c \in MainContainers :
        exitCodeFile[c] # <<>> =>
            /\ exitCodeFile[c][1] \in 0..255
            /\ procState[c] # <<>> => exitCodeFile[c] = procState[c]

(* C4: the token is cancelled only on receipt of INT/TERM, or on a CHLD when
   no main container is running any more *)
C4_CancelTrigger ==
    [][(~cancelled /\ cancelled') =>
          (pcH' = "termWait" \/ \A c \in MainContainers : proc'[c] # "running")]_vars

(* C5: an init container gets its .id or its process only after every
   earlier init container has been waited for and has its .exitCode; a main
   container gets its .id or its process only after every init container
   of the pod has *)
C5_InitOrder ==
    /\ \A i, j \in 1..MaxInit :
         (i < j /\ (idFile[InitC(j)] # <<>> \/ proc[InitC(j)] # "none")) =>
            proc[InitC(i)] = "waited" /\ exitCodeFile[InitC(i)] # <<>>
    /\ \A i \in 1..pod.InitContainers : \A m \in MainContainers :
         (idFile[m] # <<>> \/ proc[m] # "none") =>
            proc[InitC(i)] = "waited" /\ exitCodeFile[InitC(i)] # <<>>

(* two init containers ran in turn and a main container is running *)
C5_Witness ==
    /\ pod.InitContainers >= 2
    /\ proc[InitC(2)] = "waited"
    /\ proc[MainC(1)] = "running"

(* C6: once an init container has exited non-zero, no later init container
   and no main container has a process, an .id, .logs or .exitCode file or
   a scratch env file, and no supervisory task exists *)
C6_InitAbort ==
    \A i \in 1..MaxInit :
        ExitedNonZero(InitC(i)) =>
            /\ \A j \in 1..MaxInit : j > i => NoArtifacts(InitC(j))
            /\ \A m \in MainContainers : NoArtifacts(m) /\ pcT[m] = "idle"

(* the first of two init containers failed, the pod has main containers,
   and the PEA has exited *)
C6_Witness ==
    /\ Exited
    /\ pod.InitContainers >= 2 /\ pod.Containers >= 1
    /\ ExitedNonZero(InitC(1))
    /\ proc[InitC(1)] = "waited"

(* C7: when cmd.Run of an init container returned a non-zero exit, the PEA
   does not terminate with status 0 *)
C7_InitFailureExitStatus ==
    \A i \in 1..MaxInit :
        (Exited /\ proc[InitC(i)] = "waited" /\ ExitedNonZero(InitC(i))) => exitStatus # 0

(* C8: an init container that was waited for with a non-zero status has
   that status in its .exitCode at PEA exit *)
C8_FailingInitExitCode ==
    \A i \in 1..MaxInit :
        (Exited /\ proc[InitC(i)] = "waited" /\ ExitedNonZero(InitC(i))) =>
            exitCodeFile[InitC(i)] = procState[InitC(i)]

(* C9: with KUBEDNS_IP unset no resolv.conf, hosts, .ip or container
   artifact is ever written, no container is started, and the PEA does not
   terminate with status 0 *)
C9_MissingKubeDNS ==
    "KUBEDNS_IP" \notin env =>
        /\ ~resolvConf /\ ~hostsFile /\ ~ipFile
        /\ \A c \in AllContainers : NoArtifacts(c)
        /\ exitStatus # 0

(* C10: a main container whose cmd.Start failed has a finished supervisory
   task and neither .id nor .exitCode, and the PEA has not been ended by it *)
C10_SpawnErrorIsolation ==
    \A c \in MainContainers :
        proc[c] = "failed" =>
            /\ pcT[c] = "done"
            /\ idFile[c] = <<>> /\ exitCodeFile[c] = <<>>
            /\ exitStatus # ExitPanic

(* C11: a main container whose child was collected with a non-zero status
   gets exactly that status in its .exitCode, and when main returns after
   the handler cancelled on a child's exit, that container's task has
   finished and is no longer about to write the status *)
C11_WaitError ==
    \A c \in MainContainers :
        (procState[c] # <<>> /\ procState[c][1] # 0) =>
            /\ exitCodeFile[c] # <<>> => exitCodeFile[c] = procState[c]
            /\ (exitStatus = 0 /\ pcH = "chldWait") => pcT[c] = "done"

(* no file of the pod exists, no container has a process or a task *)
NothingWritten ==
    /\ ~resolvConf /\ ~hostsFile /\ ~ipFile
    /\ \A c \in AllContainers : NoArtifacts(c)
    /\ \A c \in MainContainers : pcT[c] = "idle"

(* C12: in the polling loop a failed fetch leads to the pause and the pause
   back to the next pass of the loop; the loop is left only by a successful
   fetch, by the deadline (status 1) or by a signal's default action; as
   long as no fetch has succeeded, and when the deadline ended the PEA,
   nothing has been written and no container has been launched *)
C12_PodAcquisition ==
    /\ []((pcMain \in {"start", "acquire", "sleep"} \/ exitStatus = ExitTimeout)
            => NothingWritten)
    /\ [][/\ (pcMain = "acquire" /\ pcMain' # "acquire") =>
               \/ pcMain' \in {"sleep", "refetch"}
               \/ exitStatus' \in {ExitTimeout} \cup {KilledBy(s) : s \in TermSignals}
          /\ (pcMain = "sleep" /\ pcMain' # "sleep") =>
               \/ pcMain' = "acquire"
               \/ exitStatus' \in {KilledBy(s) : s \in TermSignals}]_vars

(* a fetch has failed and the loop is in its pause, nothing written *)
C12_Witness ==
    /\ pcMain = "sleep"
    /\ Running
    /\ NothingWritten

(* C13: .ip, and every container's .id, .logs and .exitCode, once written
   is never removed and never gets another value; .ip is written by
   announceIP only *)
C13_WriteOnce ==
    [][/\ ipFile => ipFile'
       /\ ipFile' # ipFile => pcMain = "announceIP"
       /\ \A c \in AllContainers :
            /\ idFile[c] # <<>> => idFile'[c] = idFile[c]
            /\ logsFile[c] => logsFile'[c]
            /\ exitCodeFile[c] # <<>> => exitCodeFile'[c] = exitCodeFile[c]]_vars

(* .ip exists, an init container and a main container have each got their
   .id, .logs and .exitCode, and the process went on afterwards *)
C13_Witness ==
    /\ ipFile
    /\ \E c \in InitContainers, m \in MainContainers :
         /\ idFile[c] # <<>> /\ logsFile[c] /\ exitCodeFile[c] # <<>>
         /\ idFile[m] # <<>> /\ logsFile[m] /\ exitCodeFile[m] # <<>>
    /\ pcH = "done"

(* the resolv.conf the claim describes for a namespace and a name server *)
ExpectedResolvConf(namespace, kubeDNSIP) ==
    << <<"search", SP, namespace \o ".svc.cluster.local", SP, "svc.cluster.local", SP,
         "cluster.local">>,
       <<"nameserver", SP, kubeDNSIP>>,
       <<"options", SP, "ndots:5">> >>

(* C15: after a successful prepareDNS the lines of resolv.conf are exactly
   the search line of the namespace, "nameserver <KUBEDNS_IP>" and
   "options ndots:5", none with leading white space, and exactly one line
   starts with the word nameserver *)
C15_ResolvConf ==
    dnsOut.pc = "ok" =>
        LET lines == Lines(dnsOut.resolvConf) IN
        /\ lines = ExpectedResolvConf(dnsIn.Namespace, dnsIn.KUBEDNS_IP)
        /\ Cardinality({i \in 1..Len(lines) :
                           Len(lines[i]) > 0 /\ lines[i][1] = "nameserver"}) = 1

(* C14: once cleanEnvironment has run, the process environment, and the
   environment given to the command of any container, init or main, has
   none of the twelve names *)
C14_EnvScrub ==
    /\ pcMain \in {"initEnv", "initId", "initLogs", "initStart", "initRun",
                   "initExitCode", "handleContainers", "ctxDone"}
          => env \cap envVars = {}
    /\ \A c \in AllContainers :
         cmdEnv[c] # <<>> => cmdEnv[c][1] \cap envVars = {}

(* an init container and a main container have been started with the
   environment their commands were given *)
C14_Witness ==
    \E c \in InitContainers, m \in MainContainers :
        /\ Started(c) /\ cmdEnv[c] = <<{"KUBEDNS_IP"}>>
        /\ Started(m) /\ cmdEnv[m] = <<{"KUBEDNS_IP"}>>

(* C16: a supervisory task that is about to start its child can do so
   whatever the other containers are doing, and the launcher can always
   take its next step (launch the next task, or return to main), so neither
   waits for a main container to exit *)
C16_MainParallelism ==
    /\ \A c \in MainContainers :
         (Running /\ pcT[c] = "start") => ENABLED TaskStart(c)
    /\ (Running /\ pcMain = "handleContainers") =>
         ENABLED (LaunchContainer \/ MainInstall)

(* handleContainers has returned and the children of all main containers
   of a pod with at least two are running at once *)
C16_Witness ==
    /\ pod.Containers >= 2
    /\ pcMain = "ctxDone"
    /\ \A i \in 1..pod.Containers : proc[MainC(i)] = "running"

(* something of a container exists: its scratch env file was evaluated,
   it has a file, a command, a process or a supervisory task *)
Touched(c) ==
    \/ ~NoArtifacts(c)
    \/ cmdEnv[c] # <<>>
    \/ c \in MainContainers /\ pcT[c] # "idle"

(* C17: .ip is written only when resolv.conf and hosts exist, the
   environment is scrubbed only when .ip exists, and whenever anything of
   a container exists (env file, .id, .logs, command, process, task) the
   three steps have been done: both DNS files and .ip exist and the
   environment has none of the scrubbed names *)
C17_PrepareFirst ==
    /\ [](ipFile => resolvConf /\ hostsFile)
    /\ [](hostsFile => resolvConf)
    /\ []((\E c \in AllContainers : Touched(c)) =>
             /\ resolvConf /\ hostsFile /\ ipFile
             /\ env \cap envVars = {})
    /\ [][/\ env' # env => (ipFile /\ pcMain = "cleanEnvironment")
          /\ (pcMain = "prepareDNS" /\ pcMain' # "prepareDNS") =>
                (pcMain' = "announceIP" \/ Exited')
          /\ (pcMain = "announceIP" /\ pcMain' # "announceIP") =>
                (pcMain' = "cleanEnvironment" \/ Exited')]_vars

(* preparation went through, one container has been started and the
   next one is being set up *)
C17_Witness ==
    /\ resolvConf /\ hostsFile /\ ipFile
    /\ \E c \in AllContainers : Started(c)
    /\ \E c \in AllContainers : Touched(c) /\ ~Started(c)

(* C18: for every main container the process exists only with .logs
   created, .id only with the process started, the task waits only with
   .id written, and .exitCode exists only with .id written and the child
   terminated and collected *)
C18_TaskSequence ==
    \A c \in MainContainers :
        /\ proc[c] # "none" => logsFile[c]
        /\ (idFile[c] # <<>> \/ pcT[c] = "id") => Started(c)
        /\ pcT[c] \in {"wait", "exitCode"} => idFile[c] # <<>>
        /\ (exitCodeFile[c] # <<>> \/ pcT[c] = "exitCode") =>
              /\ idFile[c] # <<>>
              /\ proc[c] \in {"waited", "reaped"}

(* the second main container has gone through its whole sequence while the
   first one has not yet created its .logs *)
C18_Witness ==
    /\ exitCodeFile[MainC(2)] # <<>>
    /\ pcT[MainC(2)] = "done"
    /\ pcT[MainC(1)] = "logs"

(* the container has been launched: its command or its process exists, or
   its supervisory task does *)
Launched(c) ==
    \/ cmdEnv[c] # <<>>
    \/ proc[c] # "none"
    \/ c \in MainContainers /\ pcT[c] # "idle"

(* C19 as stated: once the process of any container has been created,
   resolv.conf, hosts and the env files in /scratch are not written any
   more *)
C19_ScratchFixedBeforeAnyLaunch ==
    [][(\E c \in AllContainers : proc[c] # "none") =>
          /\ resolvConf' = resolvConf
          /\ hostsFile' = hostsFile
          /\ scratchEnv' = scratchEnv]_vars

(* C19, amended: resolv.conf and hosts are written by the main goroutine in
   prepareDNS, before any container is launched; the env file of a
   container is written by the main goroutine in a launcher loop before
   that container itself is launched, and not any more afterwards *)
C19_ScratchBeforeOwnLaunch ==
    [][/\ (resolvConf' # resolvConf \/ hostsFile' # hostsFile) =>
             /\ pcMain = "prepareDNS"
             /\ \A c \in AllContainers : ~Launched(c)
       /\ \A c \in AllContainers :
             scratchEnv'[c] # scratchEnv[c] =>
                /\ pcMain \in {"initEnv", "handleContainers"}
                /\ ~Launched(c)]_vars

(* the env file of the second init container exists, written after the
   first init container had run, and the second one is running *)
C19_Witness ==
    /\ scratchEnv[InitC(2)]
    /\ proc[InitC(1)] = "waited"
    /\ proc[InitC(2)] = "running"

(* C20: when main has returned because handleContainers failed on the env
   file of a container (status 0, signal handler never installed), the
   supervisory task of every main container whose child had been started
   has run to its end *)
C20_LaunchFaultIsolation ==
    (exitStatus = 0 /\ ~notified) =>
        \A c \in MainContainers : Started(c) => pcT[c] = "done"

(* C21: when the handler comes back to its select from the handling of a
   CHLD (reap loop, cancel, wg.Wait), every supervisory task has finished
   and no terminated child is left uncollected *)
C21_ChldHandled ==
    [][(pcH = "chldWait" /\ pcH' = "select") =>
          /\ \A c \in MainContainers : pcT'[c] \in {"idle", "done"}
          /\ \A c \in AllContainers : proc'[c] # "zombie"]_vars

(* C22: once signal.Notify has installed the handler, no main container's
   child process is created any more *)
C22_NoStartAfterInstall ==
    [][notified =>
          \A c \in MainContainers : proc[c] = "none" => proc'[c] = "none"]_vars

(* C23: a step that cancels the token changes no container's process; a
   running child stops running only in a step of its own, in which no
   goroutine of the PEA moves; and a task leaves its wait only when its
   child has terminated *)
C23_CooperativeCancel ==
    [][/\ cancelled' # cancelled => (proc' = proc /\ status' = status)
       /\ \A c \in AllContainers :
            (proc[c] = "running" /\ proc'[c] # "running") =>
                /\ proc'[c] = "zombie"
                /\ UNCHANGED <<pcMain, pcH, pcT, cancelled, exitStatus>>
       /\ \A c \in MainContainers :
            (pcT[c] = "wait" /\ pcT'[c] # "wait") =>
                proc[c] \in {"zombie", "reaped"}]_vars

(* the token has been cancelled on INT/TERM and the handler waits for the
   tasks, while a child is still running and its task still waits for it *)
C23_Witness ==
    /\ Running
    /\ cancelled /\ pcH = "termWait"
    /\ \E c \in MainContainers : proc[c] = "running" /\ pcT[c] = "wait"

(* C24: an .id file holds "pid://" and a number; for an init container the
   number is the PEA's own pid and the file is written while the
   container has no process yet, which is created only with .id present;
   for a main container the number is the pid of its own child, and the
   file exists only with that child started *)
C24_PidFile ==
    /\ [](\A c \in InitContainers :
             idFile[c] # <<>> => idFile[c] = <<"pid://", PeaPid>>)
    /\ [](\A c \in MainContainers :
             idFile[c] # <<>> =>
                /\ idFile[c] = <<"pid://", ChildPid(c)>>
                /\ \A d \in AllContainers \ {c} : idFile[c][2] # ChildPid(d)
                /\ Started(c))
    /\ [][\A c \in InitContainers :
             /\ idFile'[c] # idFile[c] => proc'[c] = "none"
             /\ (proc[c] = "none" /\ proc'[c] # "none") => idFile[c] # <<>>]_vars

(* an init container has run with the PEA's pid in its .id and two main
   containers have their own, different pids in theirs *)
C24_Witness ==
    /\ proc[InitC(1)] = "waited"
    /\ idFile[InitC(1)] = <<"pid://", PeaPid>>
    /\ idFile[MainC(1)] # <<>> /\ idFile[MainC(2)] # <<>>
    /\ idFile[MainC(1)] # idFile[MainC(2)]

(* C25: a container for which a process was created, or its creation
   tried, has its .logs; a container without .logs has no process and no
   .exitCode, and a main container without .logs has no .id either *)
C25_LogsBeforeSpawn ==
    \A c \in AllContainers :
        /\ proc[c] # "none" => logsFile[c]
        /\ ~logsFile[c] =>
              /\ proc[c] = "none"
              /\ exitCodeFile[c] = <<>>
              /\ c \in MainContainers => idFile[c] = <<>>

(* the creation of .logs failed for one main container, whose task has
   returned, while its sibling has its .logs and a running process *)
C25_Witness ==
    \E c, d \in MainContainers :
        /\ pcT[c] = "done" /\ ~logsFile[c] /\ proc[c] = "none"
        /\ logsFile[d] /\ proc[d] = "running"

(* C26: once handleContainers has returned and main waits on the context,
   with every running child eventually terminating, the PEA process
   eventually terminates *)
C26_EventualExit ==
    (pcMain = "ctxDone") ~> Exited

(* the supervisory tasks that were spawned and have not returned *)
UnfinishedTasks == {c \in MainContainers : pcT[c] \notin {"idle", "done"}}

(* C27: the wait-group counter is the number of unfinished supervisory
   tasks, a launch raises it by one and the return of a task lowers it by
   one, and a wg.Wait of the handler returns only with every task
   finished *)
C27_WaitGroup ==
    /\ [](wg = Cardinality(UnfinishedTasks) /\ wg >= 0)
    /\ [][/\ \A c \in MainContainers :
               /\ (pcT[c] = "idle" /\ pcT'[c] # "idle") => wg' = wg + 1
               /\ (pcT[c] # "done" /\ pcT'[c] = "done") => wg' = wg - 1
          /\ ((pcH \in {"termWait", "chldWait"} /\ pcH' = "select")
                \/ (pcH = "ctxWait" /\ pcH' = "done")) =>
               \A i \in 1..pod.Containers : pcT[MainC(i)] = "done"]_vars

(* the handler is in wg.Wait after a cancel; one task has returned early
   on a failed .id write, the other is still waiting for its child *)
C27_Witness ==
    /\ pcH \in {"termWait", "chldWait"}
    /\ wg = 1
    /\ \E c, d \in MainContainers :
         /\ pcT[c] = "done" /\ Started(c) /\ idFile[c] = <<>>
         /\ pcT[d] = "wait"

(* C28: the fetch after the loop is left either with its pod, to the
   preparation, or by the end of the process: a panic, or a signal's
   default action, with nothing written; the loop is not entered again,
   and the pod snapshot is set by that fetch only *)
C28_Refetch ==
    [][/\ (pcMain = "refetch" /\ pcMain' # "refetch") =>
             \/ pcMain' = "prepareDNS" /\ exitStatus' = exitStatus
             \/ /\ exitStatus' \in {ExitPanic} \cup {KilledBy(s) : s \in TermSignals}
                /\ pod' = pod
                /\ NothingWritten'
       /\ pod' # pod => (pcMain = "refetch" /\ pcMain' = "prepareDNS")
       /\ pcMain \notin {"start", "acquire", "sleep"} =>
             pcMain' \notin {"acquire", "sleep", "refetch"} \/ pcMain = "refetch"]_vars

(* the fetch after the loop failed: the process has ended by a panic with
   nothing written *)
C28_Witness ==
    /\ exitStatus = ExitPanic
    /\ NothingWritten
    /\ pod = [InitContainers |-> 0, Containers |-> 0]

(* the arguments of a vector in which a volume bind of the container occurs *)
ArgsWithBinds(args, container) ==
    {i \in 1..Len(args) :
        \E k \in 1..Len(args[i]), j \in 1..Len(binds(container)) :
            args[i][k] = binds(container)[j]}

(* C29: for the same container, .env presence, hpkEnv and DEBUG_MODE the
   two launchers build the same argument vector, and in it a volume bind
   occurs only in the argument that follows --bind *)
C29_SameInvocation ==
    (argsOut.init # <<>> /\ argsOut.main # <<>>) =>
        /\ argsOut.init = argsOut.main
        /\ \A args \in {argsOut.init[1], argsOut.main[1]} :
              \A i \in ArgsWithBinds(args, argsIn.container) :
                 i > 1 /\ args[i - 1] = <<"--bind">>

(* C30: the second argument of either launcher's vector, the execution
   mode, is exec exactly when the command list has at least one element,
   and run otherwise *)
C30_ExecutionMode ==
    \A out \in {argsOut.init, argsOut.main} :
        out # <<>> =>
            out[1][2] = IF argsIn.container.Command # <<>>
                           /\ Len(argsIn.container.Command[1]) > 0
                        THEN <<"exec">>
                        ELSE <<"run">>

=============================================================================
